---- MODULE Spec2Model ----
(***************************************************************************)
(* Model of the evaluation stage of rfc2047-decoder (src/evaluator.rs).    *)
(*                                                                         *)
(* Bytes are integers 0..255, a byte string is a sequence of bytes, and a  *)
(* Rust String is the sequence of its Unicode scalar values (code points). *)
(* A Result<T> is a record [ok, val, err].                                 *)
(*                                                                         *)
(* The codecs the evaluator calls (std::str::from_utf8,                    *)
(* String::from_utf8_lossy, base64::decode, quoted_printable::decode in    *)
(* ParseMode::Robust, charset::Charset) are modelled by what they compute, *)
(* byte by byte, at the place the evaluator calls them.                    *)
(***************************************************************************)
EXTENDS Integers, Sequences, FiniteSets, TLC

(***************************************************************************)
(* Bounds of the model.                                                    *)
(***************************************************************************)
\* longest raw byte string of the exhaustively enumerated single segments
MaxLen == 4
\* longest segment sequence built from the sample segments
MaxSegs == 2

(***************************************************************************)
(* Results.                                                                *)
(***************************************************************************)
Ok(v) == [ok |-> TRUE, val |-> v, err |-> "none"]
Err(e) == [ok |-> FALSE, val |-> <<>>, err |-> e]

\* U+FFFD REPLACEMENT CHARACTER
REPLACEMENT == 65533

(***************************************************************************)
(* UTF-8: std::str::from_utf8 and String::from_utf8_lossy.                 *)
(***************************************************************************)
InRange(b, lo, hi) == lo <= b /\ b <= hi

\* the range the second byte of a multi-byte sequence must lie in
SecondLo(b0) == IF b0 = 224 THEN 160 ELSE IF b0 = 240 THEN 144 ELSE 128
SecondHi(b0) == IF b0 = 237 THEN 159 ELSE IF b0 = 244 THEN 143 ELSE 191

\* One decoding step at position i: the bytes consumed, whether they are a
\* well-formed sequence, and the scalar value.  An ill-formed sequence is the
\* maximal prefix of a well-formed one (at least one byte).
Utf8Step(b, i) ==
  LET b0 == b[i]
      has(k) == i + k <= Len(b)
      cont(k) == has(k) /\ InRange(b[i + k], 128, 191)
      second == has(1) /\ InRange(b[i + 1], SecondLo(b0), SecondHi(b0))
      bad(n) == [len |-> n, ok |-> FALSE, cp |-> REPLACEMENT]
  IN  IF b0 < 128 THEN [len |-> 1, ok |-> TRUE, cp |-> b0]
      ELSE IF InRange(b0, 194, 223) THEN
        IF cont(1)
        THEN [len |-> 2, ok |-> TRUE, cp |-> (b0 - 192) * 64 + (b[i + 1] - 128)]
        ELSE bad(1)
      ELSE IF InRange(b0, 224, 239) THEN
        IF ~second THEN bad(1)
        ELSE IF ~cont(2) THEN bad(2)
        ELSE [len |-> 3, ok |-> TRUE,
              cp |-> (b0 - 224) * 4096 + (b[i + 1] - 128) * 64 + (b[i + 2] - 128)]
      ELSE IF InRange(b0, 240, 244) THEN
        IF ~second THEN bad(1)
        ELSE IF ~cont(2) THEN bad(2)
        ELSE IF ~cont(3) THEN bad(3)
        ELSE [len |-> 4, ok |-> TRUE,
              cp |-> (b0 - 240) * 262144 + (b[i + 1] - 128) * 4096
                     + (b[i + 2] - 128) * 64 + (b[i + 3] - 128)]
      ELSE bad(1)

RECURSIVE Utf8ValidFrom(_, _)
Utf8ValidFrom(b, i) ==
  IF i > Len(b) THEN TRUE
  ELSE LET s == Utf8Step(b, i) IN s.ok /\ Utf8ValidFrom(b, i + s.len)

\* std::str::from_utf8(..).is_ok()
Utf8Valid(b) == Utf8ValidFrom(b, 1)

RECURSIVE Utf8From(_, _)
Utf8From(b, i) ==
  IF i > Len(b) THEN <<>>
  ELSE LET s == Utf8Step(b, i) IN <<s.cp>> \o Utf8From(b, i + s.len)

RECURSIVE Utf8Dropping(_, _)
Utf8Dropping(b, i) ==
  IF i > Len(b) THEN <<>>
  ELSE LET s == Utf8Step(b, i)
       IN  (IF s.ok THEN <<s.cp>> ELSE <<>>) \o Utf8Dropping(b, i + s.len)

\* variant: ill-formed sequences are dropped instead of replaced
from_utf8_lossy_Dropping(b) == Utf8Dropping(b, 1)

\* String::from_utf8_lossy: every ill-formed sequence becomes one U+FFFD
from_utf8_lossy(b) == Utf8From(b, 1)

\* fn decode_utf8
decode_utf8(encoded_bytes) ==
  IF Utf8Valid(encoded_bytes)
  THEN Ok(Utf8From(encoded_bytes, 1))
  ELSE Err("DecodeUtf8Error")

(***************************************************************************)
(* Base64: base64::decode (standard alphabet; padding is accepted but not  *)
(* required, non-zero trailing bits are rejected).                         *)
(***************************************************************************)
\* '='
PAD_BYTE == 61

\* the 6-bit value of a symbol of the standard alphabet, -1 for any other byte
B64Value(c) ==
  IF InRange(c, 65, 90) THEN c - 65
  ELSE IF InRange(c, 97, 122) THEN c - 97 + 26
  ELSE IF InRange(c, 48, 57) THEN c - 48 + 52
  ELSE IF c = 43 THEN 62
  ELSE IF c = 47 THEN 63
  ELSE -1

\* the number of leading bytes that are not padding
RECURSIVE B64DataLen(_, _)
B64DataLen(b, i) ==
  IF i > Len(b) \/ b[i] = PAD_BYTE THEN i - 1 ELSE B64DataLen(b, i + 1)

\* the bytes the symbols v[i..] stand for: 4 symbols give 3 bytes, a last
\* group of 2 gives 1 byte and a last group of 3 gives 2
RECURSIVE B64Bytes(_, _)
B64Bytes(v, i) ==
  LET left == Len(v) - i + 1
      x1 == (v[i] * 4 + (v[i + 1] \div 16)) % 256
      x2 == ((v[i + 1] % 16) * 16 + (v[i + 2] \div 4)) % 256
      x3 == ((v[i + 2] % 4) * 64 + v[i + 3]) % 256
  IN  IF left <= 1 THEN <<>>
      ELSE IF left = 2 THEN <<x1>>
      ELSE IF left = 3 THEN <<x1, x2>>
      ELSE <<x1, x2, x3>> \o B64Bytes(v, i + 4)

\* base64::decode
B64Decode(b) ==
  LET n == B64DataLen(b, 1)
      p == Len(b) - n
      v == [k \in 1..n |-> B64Value(b[k])]
      rem == n % 4
  IN  IF \E k \in 1..n : v[k] = -1 THEN Err("InvalidByte")
      \* a non-padding byte after padding
      ELSE IF \E k \in (n + 1)..Len(b) : b[k] # PAD_BYTE THEN Err("InvalidByte")
      \* padding after zero or one symbols of a quad, or more of it than fills the quad
      ELSE IF p > 0 /\ (rem < 2 \/ rem + p > 4) THEN Err("InvalidByte")
      ELSE IF rem = 1 THEN Err("InvalidLength")
      ELSE IF rem = 2 /\ v[n] % 16 # 0 THEN Err("InvalidLastSymbol")
      ELSE IF rem = 3 /\ v[n] % 4 # 0 THEN Err("InvalidLastSymbol")
      ELSE Ok(B64Bytes(v, 1))

\* fn decode_base64
decode_base64(encoded_bytes) ==
  LET r == B64Decode(encoded_bytes)
  IN  IF r.ok THEN Ok(r.val) ELSE Err("DecodeBase64Error")

(***************************************************************************)
(* Quoted-printable: quoted_printable::decode(_, ParseMode::Robust).       *)
(***************************************************************************)
SPACE == 32
UNDERSCORE == 95

\* bytes the decoder keeps: tab, CR, LF and the printable ASCII range; in
\* robust mode every other byte is dropped
QpKept(c) == c \in {9, 10, 13} \/ InRange(c, 32, 126)

IsHexDigit(c) == InRange(c, 48, 57) \/ InRange(c, 65, 70) \/ InRange(c, 97, 102)

HexValue(c) ==
  IF InRange(c, 48, 57) THEN c - 48
  ELSE IF InRange(c, 65, 70) THEN c - 55
  ELSE c - 87

\* str::trim_end on a line of kept bytes
RECURSIVE TrimEnd(_)
TrimEnd(s) ==
  IF Len(s) > 0 /\ s[Len(s)] \in {9, 10, 13, 32}
  THEN TrimEnd(SubSeq(s, 1, Len(s) - 1))
  ELSE s

\* str::lines: split at LF, a CR before the LF belongs to the line ending,
\* and a final line ending yields no empty last line
RECURSIVE LinesFrom(_, _, _)
LinesFrom(s, i, cur) ==
  LET strip(l) == IF Len(l) > 0 /\ l[Len(l)] = 13 THEN SubSeq(l, 1, Len(l) - 1) ELSE l
  IN  IF i > Len(s) THEN (IF cur = <<>> THEN <<>> ELSE <<cur>>)
      ELSE IF s[i] = 10 THEN <<strip(cur)>> \o LinesFrom(s, i + 1, <<>>)
      ELSE LinesFrom(s, i + 1, Append(cur, s[i]))

Lines(s) == LinesFrom(s, 1, <<>>)

\* one line from position i: the bytes decoded and whether the line ended
\* without a soft line break (add_line_break = Some(true))
RECURSIVE QpLine(_, _)
QpLine(line, i) ==
  IF i > Len(line) THEN [out |-> <<>>, brk |-> TRUE]
  ELSE IF line[i] # 61 THEN
    LET r == QpLine(line, i + 1) IN [out |-> <<line[i]>> \o r.out, brk |-> r.brk]
  ELSE IF i + 1 > Len(line) THEN [out |-> <<>>, brk |-> FALSE]
  ELSE IF i + 2 > Len(line) THEN [out |-> <<61, line[i + 1]>>, brk |-> TRUE]
  ELSE LET upper == line[i + 1]
           lower == line[i + 2]
           r == QpLine(line, i + 3)
       IN  IF IsHexDigit(upper) /\ IsHexDigit(lower)
           THEN [out |-> <<HexValue(upper) * 16 + HexValue(lower)>> \o r.out, brk |-> r.brk]
           ELSE [out |-> <<61, upper, lower>> \o r.out, brk |-> r.brk]

RECURSIVE QpLines(_, _, _)
QpLines(ls, k, brk) ==
  IF k > Len(ls) THEN <<>>
  ELSE LET r == QpLine(TrimEnd(ls[k]), 1)
       IN  (IF brk THEN <<13, 10>> ELSE <<>>) \o r.out \o QpLines(ls, k + 1, r.brk)

\* quoted_printable::decode(input, ParseMode::Robust): no input is rejected
QpDecode(input) ==
  Ok(QpLines(Lines(SelectSeq(input, QpKept)), 1, FALSE))

\* the underscore rewrite of decode_quoted_printable
MapUnderscore(encoded_bytes) ==
  [k \in 1..Len(encoded_bytes) |->
     IF encoded_bytes[k] = UNDERSCORE THEN SPACE ELSE encoded_bytes[k]]

\* fn decode_quoted_printable
decode_quoted_printable(encoded_bytes) ==
  LET r == QpDecode(MapUnderscore(encoded_bytes))
  IN  IF r.ok THEN Ok(r.val) ELSE Err("DecodeQuotedPrintableError")

(***************************************************************************)
(* Transfer decoding.                                                      *)
(***************************************************************************)
\* char::to_uppercase().next() on the tags of the model (ASCII)
ToUppercase(c) == IF InRange(c, 97, 122) THEN c - 32 ELSE c

\* variant: the tag is matched case-sensitively
decode_with_encoding_CaseSensitive(encoding, encoded_bytes) ==
  IF encoding = 66
  THEN decode_base64(encoded_bytes)
  ELSE decode_quoted_printable(encoded_bytes)

\* pub fn decode_with_encoding
decode_with_encoding(encoding, encoded_bytes) ==
  IF ToUppercase(encoding) = 66
  THEN decode_base64(encoded_bytes)
  ELSE decode_quoted_printable(encoded_bytes)

(***************************************************************************)
(* Charset decoding: charset::Charset::for_label, Charset::decode and      *)
(* charset::decode_ascii.                                                  *)
(***************************************************************************)
\* label bytes, written as the text they spell
L_utf8 == <<117, 116, 102, 45, 56>>
L_UTF8 == <<85, 84, 70, 45, 56>>
L_latin1 == <<105, 115, 111, 45, 56, 56, 53, 57, 45, 49>>
L_ascii == <<117, 115, 45, 97, 115, 99, 105, 105>>
L_cp1252 == <<119, 105, 110, 100, 111, 119, 115, 45, 49, 50, 53, 50>>
L_unknown == <<120, 45, 110, 111, 110, 101>>

AsciiLower(c) == IF InRange(c, 65, 90) THEN c + 32 ELSE c

\* a label with ASCII whitespace trimmed at both ends and ASCII letters lowered
RECURSIVE TrimStart(_)
TrimStart(s) ==
  IF Len(s) > 0 /\ s[1] \in {9, 10, 12, 13, 32} THEN TrimStart(Tail(s)) ELSE s

RECURSIVE TrimLabelEnd(_)
TrimLabelEnd(s) ==
  IF Len(s) > 0 /\ s[Len(s)] \in {9, 10, 12, 13, 32}
  THEN TrimLabelEnd(SubSeq(s, 1, Len(s) - 1))
  ELSE s

NormalLabel(label) ==
  LET t == TrimLabelEnd(TrimStart(label)) IN [k \in 1..Len(t) |-> AsciiLower(t[k])]

\* Charset::for_label on the labels of the model: the registry's entries for
\* them ("none" is the Option's None)
for_label(label) ==
  LET l == NormalLabel(label)
  IN  IF l = L_utf8 THEN "UTF-8"
      ELSE IF l \in {L_latin1, L_ascii, L_cp1252} THEN "windows-1252"
      ELSE "none"

\* windows-1252: the code points of bytes 0x80..0x9F
Cp1252High ==
  <<8364, 129, 8218, 402, 8222, 8230, 8224, 8225, 710, 8240, 352, 8249, 338, 141, 381, 143,
    144, 8216, 8217, 8220, 8221, 8226, 8211, 8212, 732, 8482, 353, 8250, 339, 157, 382, 376>>

Windows1252Decode(b) ==
  [k \in 1..Len(b) |-> IF InRange(b[k], 128, 159) THEN Cp1252High[b[k] - 127] ELSE b[k]]

\* UTF-16 from position i; be: big endian.  A lone surrogate and a trailing
\* odd byte each become U+FFFD.
RECURSIVE Utf16From(_, _, _)
Utf16From(b, i, be) ==
  LET unit(j) == IF be THEN b[j] * 256 + b[j + 1] ELSE b[j + 1] * 256 + b[j]
      u == unit(i)
  IN  IF i > Len(b) THEN <<>>
      ELSE IF i = Len(b) THEN <<REPLACEMENT>>
      ELSE IF InRange(u, 55296, 56319) THEN
        IF i + 3 <= Len(b) /\ InRange(unit(i + 2), 56320, 57343)
        THEN <<65536 + (u - 55296) * 1024 + (unit(i + 2) - 56320)>> \o Utf16From(b, i + 4, be)
        ELSE <<REPLACEMENT>> \o Utf16From(b, i + 2, be)
      ELSE IF InRange(u, 56320, 57343) THEN <<REPLACEMENT>> \o Utf16From(b, i + 2, be)
      ELSE <<u>> \o Utf16From(b, i + 2, be)

\* Charset::for_bom: the charset a byte order mark names and the mark's length
for_bom(b) ==
  IF Len(b) >= 3 /\ SubSeq(b, 1, 3) = <<239, 187, 191>> THEN [charset |-> "UTF-8", len |-> 3]
  ELSE IF Len(b) >= 2 /\ SubSeq(b, 1, 2) = <<255, 254>> THEN [charset |-> "UTF-16LE", len |-> 2]
  ELSE IF Len(b) >= 2 /\ SubSeq(b, 1, 2) = <<254, 255>> THEN [charset |-> "UTF-16BE", len |-> 2]
  ELSE [charset |-> "none", len |-> 0]

\* Charset::decode_without_bom_handling(..).0: malformed sequences are replaced
decode_without_bom_handling(charset, b) ==
  IF charset = "UTF-8" THEN Utf8From(b, 1)
  ELSE IF charset = "UTF-16LE" THEN Utf16From(b, 1, FALSE)
  ELSE IF charset = "UTF-16BE" THEN Utf16From(b, 1, TRUE)
  ELSE Windows1252Decode(b)

\* Charset::decode(..).0: a byte order mark overrides the charset and is removed
CharsetDecode(charset, b) ==
  LET bom == for_bom(b)
  IN  IF bom.charset # "none"
      THEN decode_without_bom_handling(bom.charset, SubSeq(b, bom.len + 1, Len(b)))
      ELSE decode_without_bom_handling(charset, b)

\* variant: bytes above 0x7F are passed through as code points
decode_ascii_Latin1(b) == [k \in 1..Len(b) |-> b[k]]

\* charset::decode_ascii: every byte above 0x7F becomes U+FFFD
decode_ascii(b) ==
  [k \in 1..Len(b) |-> IF b[k] < 128 THEN b[k] ELSE REPLACEMENT]

\* variant: an unresolved label is an error
decode_with_charset_Strict(charset, decoded_bytes) ==
  LET cs == for_label(charset)
  IN  IF cs # "none"
      THEN Ok(CharsetDecode(cs, decoded_bytes))
      ELSE Err("UnknownCharset")

\* pub fn decode_with_charset
decode_with_charset(charset, decoded_bytes) ==
  LET cs == for_label(charset)
      decoded_str == IF cs # "none"
                     THEN CharsetDecode(cs, decoded_bytes)
                     ELSE decode_ascii(decoded_bytes)
  IN  Ok(decoded_str)

(***************************************************************************)
(* The segments (parser::Node) and the inputs of the model.                *)
(***************************************************************************)
ClearBytes(bytes) ==
  [kind |-> "ClearBytes", bytes |-> bytes, encoding |-> 0, charset |-> <<>>]
EncodedBytes(encoding, charset, bytes) ==
  [kind |-> "EncodedBytes", bytes |-> bytes, encoding |-> encoding, charset |-> charset]

\* '_', 'A', 'B', '=', and the two bytes of U+00E9 in UTF-8
Alphabet == {UNDERSCORE, 65, 66, PAD_BYTE, 195, 169}
\* 'B', 'b', 'Q', 'X'
Tags == {66, 98, 81, 88}
\* a resolved and an unresolved label; the samples below add others
Labels == {L_UTF8, L_unknown}

ByteStrings == UNION {[1..n -> Alphabet] : n \in 0..MaxLen}

\* every single segment over the alphabet
Segments ==
  {ClearBytes(b) : b \in ByteStrings}
    \cup {EncodedBytes(t, c, b) : t \in Tags, c \in Labels, b \in ByteStrings}

\* sample segments, combined into longer sequences
Samples ==
  { ClearBytes(<<65, 95>>),                                 \* A_
    ClearBytes(<<65, 195>>),                                \* A, then a truncated sequence
    EncodedBytes(66, L_utf8, <<119, 54, 107, 61>>),         \* w6k=  (C3 A9)
    EncodedBytes(98, L_utf8, <<33, 33, 33>>),               \* !!!
    EncodedBytes(66, L_UTF8, <<55, 55, 117, 47>>),          \* 77u/  (EF BB BF)
    EncodedBytes(66, L_latin1, <<47, 47, 53, 66, 65, 65, 61, 61>>), \* //5BAA==  (FF FE 41 00)
    EncodedBytes(81, L_utf8, <<65, 95, 61, 52, 49>>),       \* A_=41
    EncodedBytes(113, L_unknown, <<61, 69, 57, 95, 66>>),   \* =E9_B
    EncodedBytes(88, L_latin1, <<61, 56, 48, 10, 65>>),     \* =80, a line feed, A
    EncodedBytes(81, L_ascii, <<95>>) }                     \* _

Asts ==
  {<<s>> : s \in Segments} \cup UNION {[1..n -> Samples] : n \in 0..MaxSegs}

(***************************************************************************)
(* pub fn run: the state.                                                  *)
(***************************************************************************)
VARIABLES
  ast,          \* the segment sequence run is called with
  idx,          \* the position of the for loop (1-based)
  pc,           \* "loop": at the head of the loop, "push": the segment's text is
                \* computed and not yet appended, "done": run has returned
  output,       \* the output buffer
  decoded_str,  \* the text of the segment being processed
  log,          \* the warnings emitted so far, in order
  result        \* what run returned

vars == <<ast, idx, pc, output, decoded_str, log, result>>

NoResult == [ok |-> FALSE, val |-> <<>>, err |-> "unset"]

\* warn!("failed to decode bytes from {}: {:?}", node.encoding, e)
WarnEncoding(node, e) == [stage |-> "encoding", subject |-> <<node.encoding>>, error |-> e]
\* warn!("failed to decode bytes to charset {:?} : {:?}", &node.charset, e)
WarnCharset(node, e) == [stage |-> "charset", subject |-> node.charset, error |-> e]
\* warn!("failed to decode clear bytes to utf-8: {:?}", e)
WarnUtf8(e) == [stage |-> "utf-8", subject |-> <<>>, error |-> e]

\* what one arm of the match computes: the text to append, the warnings
\* emitted, and the error returned to the caller of run ("none": no return)
Step(str, warns) == [str |-> str, warns |-> warns, ret |-> "none"]

\* variant: a transfer decoding error is returned to the caller (the ? operator)
EvalEncodedBytes_Propagate(node) ==
  LET r == decode_with_encoding(node.encoding, node.bytes)
  IN  IF r.ok
      THEN Step(decode_with_charset(node.charset, r.val).val, <<>>)
      ELSE [str |-> <<>>, warns |-> <<>>, ret |-> r.err]

\* variant: the fallback reads the bytes after the underscore rewrite
EvalEncodedBytes_LossyOfRewritten(node) ==
  LET r == decode_with_encoding(node.encoding, node.bytes)
  IN  IF r.ok
      THEN Step(decode_with_charset(node.charset, r.val).val, <<>>)
      ELSE Step(from_utf8_lossy(MapUnderscore(node.bytes)), <<WarnEncoding(node, r.err)>>)

\* the EncodedBytes arm up to the push
EvalEncodedBytes(node) ==
  LET r == decode_with_encoding(node.encoding, node.bytes)
  IN  IF r.ok
      THEN LET c == decode_with_charset(node.charset, r.val)
           IN  IF c.ok
               THEN Step(c.val, <<>>)
               ELSE Step(from_utf8_lossy(node.bytes), <<WarnCharset(node, c.err)>>)
      ELSE Step(from_utf8_lossy(node.bytes), <<WarnEncoding(node, r.err)>>)

\* variant: a clear segment that is not UTF-8 is dropped
EvalClearBytes_Dropping(clear_bytes) ==
  LET r == decode_utf8(clear_bytes)
  IN  IF r.ok THEN Step(r.val, <<>>) ELSE Step(<<>>, <<WarnUtf8(r.err)>>)

\* variant: the fallback of a clear segment is not logged
EvalClearBytes_Silent(clear_bytes) ==
  LET r == decode_utf8(clear_bytes)
  IN  IF r.ok THEN Step(r.val, <<>>) ELSE Step(from_utf8_lossy(clear_bytes), <<>>)

\* the ClearBytes arm up to the push
EvalClearBytes(clear_bytes) ==
  LET r == decode_utf8(clear_bytes)
  IN  IF r.ok
      THEN Step(r.val, <<>>)
      ELSE Step(from_utf8_lossy(clear_bytes), <<WarnUtf8(r.err)>>)

\* variant: the text is put in front of the buffer
push_str_Prepend(buf, str) == str \o buf

\* output.push_str
push_str(buf, str) == buf \o str

Init ==
  /\ ast \in Asts
  /\ idx = 1
  /\ pc = "loop"
  /\ output = <<>>
  /\ decoded_str = <<>>
  /\ log = <<>>
  /\ result = NoResult

\* the body of the loop up to the push: decode, warn on failure
Eval(step) ==
  /\ log' = log \o step.warns
  /\ IF step.ret = "none"
     THEN /\ decoded_str' = step.str
          /\ pc' = "push"
          /\ result' = result
     ELSE /\ decoded_str' = decoded_str
          /\ pc' = "done"
          /\ result' = Err(step.ret)
  /\ UNCHANGED <<ast, idx, output>>

EvalEncoded ==
  /\ pc = "loop"
  /\ idx <= Len(ast)
  /\ ast[idx].kind = "EncodedBytes"
  /\ Eval(EvalEncodedBytes(ast[idx]))

EvalClear ==
  /\ pc = "loop"
  /\ idx <= Len(ast)
  /\ ast[idx].kind = "ClearBytes"
  /\ Eval(EvalClearBytes(ast[idx].bytes))

\* the push that ends the arm, and the step to the next segment
Push ==
  /\ pc = "push"
  /\ output' = push_str(output, decoded_str)
  /\ idx' = idx + 1
  /\ pc' = "loop"
  /\ UNCHANGED <<ast, decoded_str, log, result>>

\* Ok(output)
Return ==
  /\ pc = "loop"
  /\ idx > Len(ast)
  /\ result' = Ok(output)
  /\ pc' = "done"
  /\ UNCHANGED <<ast, idx, output, decoded_str, log>>

Next == EvalEncoded \/ EvalClear \/ Push \/ Return

Spec == Init /\ [][Next]_vars

(***************************************************************************)
(* Definitions the properties are stated with.                             *)
(***************************************************************************)
\* the UTF-8 bytes of a string
RECURSIVE Utf8Encode(_)
Utf8Encode(str) ==
  IF str = <<>> THEN <<>>
  ELSE LET c == Head(str)
           enc == IF c < 128 THEN <<c>>
                  ELSE IF c < 2048 THEN <<192 + (c \div 64), 128 + (c % 64)>>
                  ELSE IF c < 65536
                    THEN <<224 + (c \div 4096), 128 + ((c \div 64) % 64), 128 + (c % 64)>>
                  ELSE <<240 + (c \div 262144), 128 + ((c \div 4096) % 64),
                         128 + ((c \div 64) % 64), 128 + (c % 64)>>
       IN  enc \o Utf8Encode(Tail(str))

Count(s, x) == Cardinality({k \in 1..Len(s) : s[k] = x})

IsSuffix(t, s) == Len(t) <= Len(s) /\ SubSeq(s, Len(s) - Len(t) + 1, Len(s)) = t

\* the segment whose text is computed and not yet appended
AtPush == pc = "push"
Node == ast[idx]
IsClear(node) == node.kind = "ClearBytes"
IsEncoded(node) == node.kind = "EncodedBytes"

\* the outcome of the transfer decoding of an encoded segment
Transfer(node) == decode_with_encoding(node.encoding, node.bytes)
TransferFails(node) == IsEncoded(node) /\ ~Transfer(node).ok

\* the text run yields for the one-segment sequence <<node>>
SegText(node) ==
  IF IsClear(node) THEN EvalClearBytes(node.bytes).str ELSE EvalEncodedBytes(node).str

RECURSIVE ConcatTexts(_, _)
ConcatTexts(a, n) == IF n = 0 THEN <<>> ELSE ConcatTexts(a, n - 1) \o SegText(a[n])

\* a segment whose decoding fails at some stage
Failed(node) ==
  IF IsClear(node) THEN ~Utf8Valid(node.bytes)
  ELSE \/ ~Transfer(node).ok
       \/ ~decode_with_charset(node.charset, Transfer(node).val).ok

\* the segments evaluated so far, and the failed ones among the first n
Evaluated == IF pc = "push" THEN idx ELSE idx - 1
RECURSIVE FailedAmong(_, _)
FailedAmong(a, n) ==
  IF n = 0 THEN <<>>
  ELSE FailedAmong(a, n - 1) \o (IF Failed(a[n]) THEN <<n>> ELSE <<>>)

(***************************************************************************)
(* Properties.                                                             *)
(***************************************************************************)

\* C1: run returns Ok with a string for every segment sequence: no step of
\* the loop returns an error to the caller, whatever the segments' bytes, and
\* once run has returned its result is Ok.
C1_RunAlwaysOk ==
  /\ result \in {NoResult, Ok(result.val)}
  /\ pc = "done" => result.ok /\ result.err = "none" /\ result.val = output

\* run has returned for a sequence holding a clear segment that is not UTF-8
\* and an encoded segment that is not base64
C1_Witness ==
  /\ pc = "done"
  /\ result.ok
  /\ \E i, j \in 1..Len(ast) :
       /\ IsClear(ast[i]) /\ ~Utf8Valid(ast[i].bytes)
       /\ TransferFails(ast[j])

\* C2: the buffer is always the concatenation, in input order, of the texts
\* of the segments appended so far, each text being the one the segment
\* yields alone; the string returned is the concatenation over the whole
\* sequence (the empty string for the empty sequence).
C2_OrderedConcatenation ==
  /\ pc # "done" => output = ConcatTexts(ast, idx - 1)
  /\ pc = "push" => decoded_str = SegText(ast[idx])
  /\ pc = "done" => result.val = ConcatTexts(ast, Len(ast))
  /\ pc = "done" /\ ast = <<>> => result.val = <<>>

\* run has returned for two segments with different non-empty texts
C2_Witness ==
  /\ pc = "done"
  /\ Len(ast) = 2
  /\ SegText(ast[1]) # <<>>
  /\ SegText(ast[2]) # <<>>
  /\ SegText(ast[1]) \o SegText(ast[2]) # SegText(ast[2]) \o SegText(ast[1])
  /\ result.val = SegText(ast[1]) \o SegText(ast[2])

\* C3: when the transfer decoding of an encoded segment fails, the text for
\* the segment is the lossy UTF-8 reading of its raw bytes: it re-encodes to
\* the raw bytes when these are UTF-8, it keeps every underscore, and it is
\* not empty unless the raw bytes are.
C3_TransferFailureFallsBackToRaw ==
  AtPush /\ TransferFails(Node) =>
    /\ decoded_str = from_utf8_lossy(Node.bytes)
    /\ Utf8Valid(Node.bytes) => Utf8Encode(decoded_str) = Node.bytes
    /\ Count(decoded_str, UNDERSCORE) = Count(Node.bytes, UNDERSCORE)
    /\ Node.bytes # <<>> => decoded_str # <<>>

\* a segment tagged B or b whose raw bytes hold an underscore (no base64)
\* is about to be appended
C3_Witness ==
  /\ AtPush
  /\ TransferFails(Node)
  /\ Count(Node.bytes, UNDERSCORE) > 0
  /\ decoded_str = from_utf8_lossy(Node.bytes)

\* C4 (as claimed): a segment with at least one raw byte contributes at least
\* one character, so a non-empty sequence yields the empty string only if
\* every segment's raw bytes are empty.
C4_NonEmptyBytesGiveText ==
  /\ AtPush /\ Node.bytes # <<>> => decoded_str # <<>>
  /\ pc = "done" /\ ast # <<>> /\ result.val = <<>> =>
       \A j \in 1..Len(ast) : ast[j].bytes = <<>>

\* C4 (amended): a clear segment, or an encoded segment whose transfer
\* decoding fails, contributes at least one character when it has a raw byte;
\* a non-empty sequence yields the empty string only if each segment has no
\* raw bytes or is an encoded segment that decodes to no text.
C4_FallbackAndClearGiveText ==
  /\ AtPush /\ Node.bytes # <<>> /\ (IsClear(Node) \/ TransferFails(Node)) =>
       decoded_str # <<>>
  /\ pc = "done" /\ ast # <<>> /\ result.val = <<>> =>
       \A j \in 1..Len(ast) :
         \/ ast[j].bytes = <<>>
         \/ IsEncoded(ast[j]) /\ Transfer(ast[j]).ok

\* a clear segment of bytes that are not UTF-8 is about to be appended
C4_Witness ==
  /\ AtPush
  /\ IsClear(Node)
  /\ Node.bytes # <<>>
  /\ ~Utf8Valid(Node.bytes)
  /\ decoded_str # <<>>

\* C5: for an encoded segment with an unresolved charset label whose transfer
\* decoding succeeds, the text is the transfer-decoded bytes read as ASCII,
\* byte for byte, with U+FFFD for every byte above 0x7F; nothing is logged.
C5_UnresolvedLabelDecodesAscii ==
  AtPush /\ IsEncoded(Node) /\ for_label(Node.charset) = "none" /\ Transfer(Node).ok =>
    LET d == Transfer(Node).val
    IN  /\ Len(decoded_str) = Len(d)
        /\ \A k \in 1..Len(d) :
             decoded_str[k] = IF d[k] < 128 THEN d[k] ELSE REPLACEMENT
        /\ Len(log) = Len(FailedAmong(ast, idx - 1))

\* an unresolved label, and decoded bytes that differ from the raw ones and
\* hold a byte above 0x7F
C5_Witness ==
  /\ AtPush
  /\ IsEncoded(Node)
  /\ for_label(Node.charset) = "none"
  /\ Transfer(Node).ok
  /\ Transfer(Node).val # Node.bytes
  /\ \E k \in 1..Len(Transfer(Node).val) : Transfer(Node).val[k] >= 128
  /\ Count(decoded_str, REPLACEMENT) > 0

\* C6 (as claimed): for a tag other than B/b every underscore is rewritten to
\* a space before quoted-printable decoding, so the decoded text shows a
\* space for each underscore of the raw bytes.
C6_UnderscoresShowAsSpaces ==
  AtPush /\ IsEncoded(Node) /\ ToUppercase(Node.encoding) # 66 /\ Transfer(Node).ok =>
    Count(decoded_str, SPACE) >= Count(Node.bytes, UNDERSCORE)

\* C7: the tag alone selects the transfer decoding: base64 for B and b,
\* quoted-printable for every other tag, which is never an error by itself.
C7_TagSelectsDecoding ==
  AtPush /\ IsEncoded(Node) =>
    LET isB == Node.encoding \in {66, 98}
        r == IF isB THEN decode_base64(Node.bytes) ELSE decode_quoted_printable(Node.bytes)
    IN  /\ Transfer(Node) = r
        /\ Transfer(Node) = decode_with_encoding(ToUppercase(Node.encoding), Node.bytes)
        /\ decoded_str = IF r.ok THEN decode_with_charset(Node.charset, r.val).val
                         ELSE from_utf8_lossy(Node.bytes)
        /\ ~isB => r.ok

\* tag b with bytes that base64 and quoted-printable decode differently
C7_Witness ==
  /\ AtPush
  /\ IsEncoded(Node)
  /\ Node.encoding = 98
  /\ decode_base64(Node.bytes).ok
  /\ decode_base64(Node.bytes) # decode_quoted_printable(Node.bytes)
  /\ decoded_str = decode_with_charset(Node.charset, decode_base64(Node.bytes).val).val

\* C8: the text of a clear segment is its bytes as a string when they are
\* UTF-8 (it re-encodes to the same bytes) and their lossy reading when not;
\* the text is appended once, at the end of the buffer.
C8_ClearSegmentText ==
  /\ AtPush /\ IsClear(Node) =>
       IF Utf8Valid(Node.bytes)
       THEN /\ Utf8Encode(decoded_str) = Node.bytes
            /\ Count(decoded_str, REPLACEMENT) = 0
       ELSE /\ decoded_str = from_utf8_lossy(Node.bytes)
            /\ Count(decoded_str, REPLACEMENT) > 0
  /\ pc = "loop" /\ idx > 1 /\ IsClear(ast[idx - 1]) =>
       /\ IsSuffix(SegText(ast[idx - 1]), output)
       /\ Len(output) = Len(ConcatTexts(ast, idx - 2)) + Len(SegText(ast[idx - 1]))
  /\ result.err \in {"none", "unset"}

\* a clear segment holding a multi-byte character is about to be appended
C8_Witness ==
  /\ AtPush
  /\ IsClear(Node)
  /\ Utf8Valid(Node.bytes)
  /\ Len(decoded_str) < Len(Node.bytes)

\* C9: the log holds exactly one warning for each failed segment evaluated so
\* far, in segment order, and none for the others; when a failed segment's
\* text is about to be appended its warning is already the last of the log.
C9_OneWarningBeforeFallback ==
  LET f == FailedAmong(ast, Evaluated)
      expected(node) ==
        IF IsClear(node) THEN "utf-8"
        ELSE IF ~Transfer(node).ok THEN "encoding" ELSE "charset"
  IN  /\ Len(log) = Len(f)
      /\ \A k \in 1..Len(f) :
           /\ log[k].stage = expected(ast[f[k]])
           /\ IsEncoded(ast[f[k]]) => log[k].subject = <<ast[f[k]].encoding>>
      /\ AtPush /\ Failed(Node) =>
           /\ Len(log) > 0
           /\ f[Len(f)] = idx
           /\ output = ConcatTexts(ast, idx - 1)

\* a failed segment follows a successful one: its warning is logged and its
\* text not yet appended
C9_Witness ==
  /\ AtPush
  /\ idx = 2
  /\ Failed(ast[2])
  /\ Len(log) = 1
  /\ ~Failed(ast[1])
  /\ SegText(ast[2]) # <<>>

\* C10: decode_with_charset returns Ok for every label and byte string, so
\* no warning names a charset and a segment whose transfer decoding
\* succeeds contributes the charset-decoded text of the decoded bytes.
C10_CharsetNeverFails ==
  /\ \A k \in 1..Len(log) : log[k].stage # "charset"
  /\ AtPush /\ IsEncoded(Node) /\ Transfer(Node).ok =>
       /\ decode_with_charset(Node.charset, Transfer(Node).val).ok
       /\ decoded_str = decode_with_charset(Node.charset, Transfer(Node).val).val
       /\ Len(log) = Len(FailedAmong(ast, idx - 1))

\* a resolved label, and decoded bytes that are malformed in its charset
C10_Witness ==
  /\ AtPush
  /\ IsEncoded(Node)
  /\ Transfer(Node).ok
  /\ for_label(Node.charset) = "UTF-8"
  /\ ~Utf8Valid(Transfer(Node).val)
  /\ Count(decoded_str, REPLACEMENT) > 0

====
